---- MODULE Spec2Model ----
(***************************************************************************)
(* Reservation-consistency model of the FastAPI hotel booking service.     *)
(*                                                                         *)
(* The state is the three tables of models.py (users, rooms,               *)
(* reserved_rooms) plus the calendar date read by update_all_data.  Every  *)
(* request handler of routers/router_users.py and routers/router_admins.py *)
(* is one action; the handlers that read and then write are also split in  *)
(* two steps per database session for the concurrent specification.        *)
(*                                                                         *)
(* Columns that no handler ever reads (name, surname, checkin, commentary, *)
(* datetime, room_type, count_room, description, floor, price) are left    *)
(* out of the rows: they are copied from the request and never inspected.  *)
(***************************************************************************)
EXTENDS Integers, FiniteSets, TLC

\* ------------------------------------------------------------------ bounds
MaxRoomId == 2        \* rooms.id values the serial column hands out
MaxRoomNumber == 2    \* room_number values a request may carry
MaxGuest == 2         \* passport_series / phone_number values of bookings
MaxSweepGuest == 3    \* the same under SpecBookSweep: three bookings of one
                      \* room are what a double booking by sweeps takes
MaxUserKey == 1       \* passport_series / phone_number values of users
MaxDay == 1           \* calendar days 0..MaxDay
MaxProc == 2          \* concurrent database sessions

RoomIds == 1..MaxRoomId
RoomNumbers == 1..MaxRoomNumber
UserKeys == 1..MaxUserKey
Dates == 0..MaxDay
Procs == 1..MaxProc

\* Optional[T] of pydantic: {} is None, {v} is the value v.
Opt(S) == {{}} \cup {{v} : v \in S}

VARIABLES
    today,      \* datetime.today().date()
    users,      \* table users
    rooms,      \* table rooms
    room_seq,   \* last value handed out by the rooms.id serial
    reserved,   \* table reserved_rooms
    last,       \* the latest completed call: handler, argument, outcome, result
    sess        \* per database session: the handler it is inside and its request

vars == <<today, users, rooms, room_seq, reserved, last, sess>>

\* ------------------------------------------------------------- the tables
\* db.query(Rooms).filter(Rooms.id == id).first(): the row, or None ({}).
RoomById(rms, id) == {r \in rms : r.id = id}

\* db.query(Rooms).filter(Rooms.room_number == n).first()
RoomByNumber(rms, n) == {r \in rms : r.room_number = n}

\* UPDATE rooms SET is_reserved = v WHERE id IN ids
SetReservedFlag(rms, ids, v) ==
    {[r EXCEPT !.is_reserved = IF r.id \in ids THEN v ELSE @] : r \in rms}

\* UPDATE reserved_rooms SET actual = v WHERE id IN ids
SetActual(rsv, ids, v) ==
    {[x EXCEPT !.actual = IF x.id \in ids THEN v ELSE @] : x \in rsv}

\* The unique=True columns of reserved_rooms.
ReservedUniqueViolation(rsv, req) ==
    \E x \in rsv : \/ x.passport_series = req.passport_series
                   \/ x.phone_number = req.phone_number

\* The unique=True columns of users.
UsersUniqueViolation(usr, req) ==
    \E u \in usr : \/ u.passport_series = req.passport_series
                   \/ u.phone_number = req.phone_number

\* The serial primary key of a table whose rows are never deleted.
NextSerial(tbl) == Cardinality(tbl) + 1

\* What a call leaves behind: the outcome, the ids of the rows it returns and
\* the tables it committed.
Result(out, ret, rms, rsv) ==
    [out |-> out, ret |-> ret, rooms |-> rms, reserved |-> rsv]

Ids(tbl) == {x.id : x \in tbl}

\* ------------------------------------------------- router_users.py handlers
\* create_user: the insert, with IntegrityError turned into an HTTPException.
create_user(usr, req) ==
    IF UsersUniqueViolation(usr, req)
    THEN [out |-> "Conflict", users |-> usr]
    ELSE [out |-> "Ok",
          users |-> usr \cup {[id |-> NextSerial(usr),
                               passport_series |-> req.passport_series,
                               phone_number |-> req.phone_number]}]

\* read_room: 404 when the table is empty, every row otherwise.
read_room(rms, rsv) ==
    IF rms = {}
    THEN Result("NotFound", {}, rms, rsv)
    ELSE Result("Ok", Ids(rms), rms, rsv)

\* create_reserved_room, the read: the room is looked up and room.is_reserved
\* is read with no check that the room exists (None.is_reserved raises
\* AttributeError, an unhandled fault).
BookCheckNoGuard(rms, req) ==
    IF RoomById(rms, req.id_room) = {} THEN "Fault" ELSE "Proceed"

BookCheck(rms, req) ==
    IF RoomById(rms, req.id_room) = {}
    THEN "Fault"
    ELSE IF \E r \in RoomById(rms, req.id_room) : r.is_reserved
         THEN "AlreadyReserved"
         ELSE "Proceed"

\* The reserved_rooms row built from the request: ReservedRooms(**reserved_room.dict()).
\* actual is a field of the request (default True).
NewReservedRow(rsv, req) ==
    [id |-> NextSerial(rsv),
     id_room |-> req.id_room,
     passport_series |-> req.passport_series,
     phone_number |-> req.phone_number,
     checkout |-> req.checkout,
     actual |-> req.actual]

\* A flush that keeps the room's UPDATE when the INSERT is rejected.
BookFlushNoRollback(rms, rsv, req) ==
    IF RoomById(rms, req.id_room) = {}
    THEN Result("Fault", {}, rms, rsv)
    ELSE IF ReservedUniqueViolation(rsv, req)
         THEN Result("Fault", {}, SetReservedFlag(rms, {req.id_room}, TRUE), rsv)
         ELSE Result("Ok", {NextSerial(rsv)},
                     SetReservedFlag(rms, {req.id_room}, TRUE),
                     rsv \cup {NewReservedRow(rsv, req)})

\* create_reserved_room, the write: room.is_reserved = True and the new row are
\* flushed by the one db.commit().  The UPDATE of a room row that is gone
\* (StaleDataError) or an INSERT that breaks a unique column (IntegrityError)
\* raises out of the commit and the transaction is rolled back as a whole.
BookFlush(rms, rsv, req) ==
    IF RoomById(rms, req.id_room) = {}
    THEN Result("Fault", {}, rms, rsv)
    ELSE IF ReservedUniqueViolation(rsv, req)
         THEN Result("Fault", {}, rms, rsv)
         ELSE Result("Ok", {NextSerial(rsv)},
                     SetReservedFlag(rms, {req.id_room}, TRUE),
                     rsv \cup {NewReservedRow(rsv, req)})

\* create_reserved_room run in one piece.
create_reserved_room(rms, rsv, req) ==
    IF BookCheck(rms, req) = "Proceed"
    THEN BookFlush(rms, rsv, req)
    ELSE Result(BookCheck(rms, req), {}, rms, rsv)

\* ------------------------------------------------ router_admins.py handlers
\* The rows update_all_data selects: checkout <= current_date, whatever actual is.
ExpiredRows(rsv, d) == {x \in rsv : x.checkout <= d}

\* update_all_data: nothing selected returns [] before any write; otherwise the
\* rooms the selected rows reference are unflagged, the selected rows are set
\* actual = False, and the selected rows are returned.
update_all_data(rms, rsv, d) ==
    IF ExpiredRows(rsv, d) = {}
    THEN Result("Ok", {}, rms, rsv)
    ELSE Result("Ok", Ids(ExpiredRows(rsv, d)),
                SetReservedFlag(rms, {x.id_room : x \in ExpiredRows(rsv, d)}, FALSE),
                SetActual(rsv, Ids(ExpiredRows(rsv, d)), FALSE))

\* A delete whose query lost its filter: the first row of the table goes.
delete_room_unfiltered(rms, rsv, id) ==
    IF rms = {}
    THEN Result("NotFound", {}, rms, rsv)
    ELSE LET victim == CHOOSE r \in rms : \A o \in rms : r.id <= o.id
         IN  IF \E x \in rsv : x.id_room = victim.id
             THEN Result("Fault", {}, rms, rsv)
             ELSE Result("Ok", {victim.id}, rms \ {victim}, rsv)

\* delete_room: 404 when the id matches no room.  db.delete(room) of a room
\* that reserved_rooms rows reference makes the ORM null their id_room, a
\* nullable=False foreign key: the commit raises IntegrityError and nothing
\* is deleted.
delete_room(rms, rsv, id) ==
    IF RoomById(rms, id) = {}
    THEN Result("NotFound", {}, rms, rsv)
    ELSE IF \E x \in rsv : x.id_room = id
         THEN Result("Fault", {}, rms, rsv)
         ELSE Result("Ok", {id}, rms \ RoomById(rms, id), rsv)

\* read_reserved_room: .all() is a list, never None, so the 404 branch is dead.
read_reserved_room(rms, rsv) == Result("Ok", Ids(rsv), rms, rsv)

\* create_room, the read: a room with that room_number already exists.
CreateRoomCheck(rms, req) ==
    IF RoomByNumber(rms, req.room_number) # {} THEN "Conflict" ELSE "Proceed"

\* create_room, the write: the insert; rooms.room_number carries no unique
\* constraint, so the insert itself never fails.
CreateRoomFlush(rms, rsv, seq, req) ==
    Result("Ok", {seq + 1},
           rms \cup {[id |-> seq + 1,
                      room_number |-> req.room_number,
                      is_reserved |-> req.is_reserved]},
           rsv)

\* create_room run in one piece.
create_room(rms, rsv, seq, req) ==
    IF CreateRoomCheck(rms, req) = "Proceed"
    THEN CreateRoomFlush(rms, rsv, seq, req)
    ELSE Result("Conflict", {}, rms, rsv)

\* update_room: every field that is not None is assigned, the others stay.
update_room(rms, rsv, id, upd) ==
    IF RoomById(rms, id) = {}
    THEN Result("NotFound", {}, rms, rsv)
    ELSE Result("Ok", {id},
                {IF r.id = id
                 THEN [r EXCEPT
                         !.room_number = IF upd.room_number = {} THEN @
                                         ELSE CHOOSE v \in upd.room_number : TRUE,
                         !.is_reserved = IF upd.is_reserved = {} THEN @
                                         ELSE CHOOSE v \in upd.is_reserved : TRUE]
                 ELSE r : r \in rms},
                rsv)

\* ------------------------------------------------------------- the requests
UserRequests == [passport_series : UserKeys, phone_number : UserKeys]
RoomRequests == [room_number : RoomNumbers, is_reserved : BOOLEAN]
RoomUpdates == [room_number : Opt(RoomNumbers), is_reserved : Opt(BOOLEAN)]
\* passport_series and phone_number are only ever compared for equality (the
\* unique constraints), so a request carries a value that a row or a request
\* in flight already holds, or the least value that none holds yet.
HeldOrNext(held, S) == {v \in S : v \in held \/ \A w \in S : w < v => w \in held}

InFlight == UNION {sess[p].req : p \in {q \in Procs : sess[q].pc = "book"}}

HeldPassports ==
    {x.passport_series : x \in reserved} \cup {q.passport_series : q \in InFlight}

HeldPhones ==
    {x.phone_number : x \in reserved} \cup {q.phone_number : q \in InFlight}

BookRequests(guests) ==
    [id_room : RoomIds,
     passport_series : HeldOrNext(HeldPassports, 1..guests),
     phone_number : HeldOrNext(HeldPhones, 1..guests),
     checkout : Dates, actual : BOOLEAN]

\* The requests of the concurrent specification leave the optional request
\* fields at their defaults (actual = True, is_reserved = False); no date
\* passes there, so one checkout date stands for all.
ConcurrentBookRequests ==
    {q \in BookRequests(MaxGuest) : q.actual /\ q.checkout = MaxDay}
ConcurrentRoomRequests == {q \in RoomRequests : ~q.is_reserved}

\* The record of a completed call.  rep is set by the expiry sweep alone: the
\* call before it was an expiry sweep on the same date.
Call(op, arg, res, rep) ==
    [op |-> op, arg |-> arg, out |-> res.out, ret |-> res.ret, rep |-> rep]

Idle(op, arg, out) ==
    [pc |-> "idle", req |-> {}, op |-> op, arg |-> arg, out |-> out]

Init ==
    /\ today = 0
    /\ users = {}
    /\ rooms = {}
    /\ room_seq = 0
    /\ reserved = {}
    /\ last = [op |-> "None", arg |-> 0, out |-> "Ok", ret |-> {}, rep |-> FALSE]
    /\ sess = [p \in Procs |-> Idle("None", 0, "Ok")]

\* -------------------------------------------------- one action per handler
\* The calendar moves on between calls.
Tick ==
    /\ today < MaxDay
    /\ today' = today + 1
    /\ UNCHANGED <<users, rooms, room_seq, reserved, last, sess>>

CreateUser(req) ==
    /\ users' = create_user(users, req).users
    /\ last' = Call("CreateUser", 0,
                    [out |-> create_user(users, req).out, ret |-> {}], FALSE)
    /\ UNCHANGED <<today, rooms, room_seq, reserved, sess>>

ListRooms ==
    /\ last' = Call("ListRooms", 0, read_room(rooms, reserved), FALSE)
    /\ UNCHANGED <<today, users, rooms, room_seq, reserved, sess>>

ListReservations ==
    /\ last' = Call("ListReservations", 0, read_reserved_room(rooms, reserved), FALSE)
    /\ UNCHANGED <<today, users, rooms, room_seq, reserved, sess>>

CreateRoom(req) ==
    LET res == create_room(rooms, reserved, room_seq, req) IN
    /\ res.out = "Ok" => room_seq < MaxRoomId
    /\ rooms' = res.rooms
    /\ room_seq' = IF res.out = "Ok" THEN room_seq + 1 ELSE room_seq
    /\ last' = Call("CreateRoom", req.room_number, res, FALSE)
    /\ UNCHANGED <<today, users, reserved, sess>>

UpdateRoom(id, upd) ==
    LET res == update_room(rooms, reserved, id, upd) IN
    /\ rooms' = res.rooms
    /\ last' = Call("UpdateRoom", id, res, FALSE)
    /\ UNCHANGED <<today, users, room_seq, reserved, sess>>

DeleteRoom(id) ==
    LET res == delete_room(rooms, reserved, id) IN
    /\ rooms' = res.rooms
    /\ reserved' = res.reserved
    /\ last' = Call("DeleteRoom", id, res, FALSE)
    /\ UNCHANGED <<today, users, room_seq, sess>>

Book(req) ==
    LET res == create_reserved_room(rooms, reserved, req) IN
    /\ rooms' = res.rooms
    /\ reserved' = res.reserved
    /\ last' = Call("Book", req.id_room, res, FALSE)
    /\ UNCHANGED <<today, users, room_seq, sess>>

ExpireSweep ==
    LET res == update_all_data(rooms, reserved, today) IN
    /\ rooms' = res.rooms
    /\ reserved' = res.reserved
    /\ last' = Call("ExpireSweep", today, res,
                    last.op = "ExpireSweep" /\ last.arg = today)
    /\ UNCHANGED <<today, users, room_seq, sess>>

\* ------------------------------------- the handlers as two steps per session
\* create_reserved_room up to the check of room.is_reserved (lines 138-140).
BookRead(p, req) ==
    /\ sess[p].pc = "idle"
    /\ sess' = [sess EXCEPT ![p] =
                  IF BookCheck(rooms, req) = "Proceed"
                  THEN [pc |-> "book", req |-> {req}, op |-> "Book",
                        arg |-> req.id_room, out |-> "Pending"]
                  ELSE Idle("Book", req.id_room, BookCheck(rooms, req))]
    /\ UNCHANGED <<today, users, rooms, room_seq, reserved, last>>

\* create_reserved_room from room.is_reserved = True to the commit (142-147).
BookCommit(p) ==
    /\ sess[p].pc = "book"
    /\ \E req \in sess[p].req :
         LET res == BookFlush(rooms, reserved, req) IN
         /\ rooms' = res.rooms
         /\ reserved' = res.reserved
         /\ sess' = [sess EXCEPT ![p] = Idle("Book", req.id_room, res.out)]
    /\ UNCHANGED <<today, users, room_seq, last>>

\* create_room up to the check of the room_number (line 174-176).
CreateRoomRead(p, req) ==
    /\ sess[p].pc = "idle"
    /\ sess' = [sess EXCEPT ![p] =
                  IF CreateRoomCheck(rooms, req) = "Proceed"
                  THEN [pc |-> "create", req |-> {req}, op |-> "CreateRoom",
                        arg |-> req.room_number, out |-> "Pending"]
                  ELSE Idle("CreateRoom", req.room_number, "Conflict")]
    /\ UNCHANGED <<today, users, rooms, room_seq, reserved, last>>

\* create_room from the insert to the commit (lines 177-181).
CreateRoomCommit(p) ==
    /\ sess[p].pc = "create"
    /\ room_seq < MaxRoomId
    /\ \E req \in sess[p].req :
         LET res == CreateRoomFlush(rooms, reserved, room_seq, req) IN
         /\ rooms' = res.rooms
         /\ room_seq' = room_seq + 1
         /\ sess' = [sess EXCEPT ![p] = Idle("CreateRoom", req.room_number, res.out)]
    /\ UNCHANGED <<today, users, reserved, last>>

\* delete_room by a session that is between calls.
DeleteRoomBy(p, id) ==
    LET res == delete_room(rooms, reserved, id) IN
    /\ sess[p].pc = "idle"
    /\ rooms' = res.rooms
    /\ reserved' = res.reserved
    /\ sess' = [sess EXCEPT ![p] = Idle("DeleteRoom", id, res.out)]
    /\ UNCHANGED <<today, users, room_seq, last>>

\* --------------------------------------------------------- specifications
\* Every handler, one call at a time.
Next ==
    \/ Tick
    \/ \E req \in UserRequests : CreateUser(req)
    \/ ListRooms
    \/ ListReservations
    \/ \E req \in RoomRequests : CreateRoom(req)
    \/ \E id \in RoomIds, upd \in RoomUpdates : UpdateRoom(id, upd)
    \/ \E id \in RoomIds : DeleteRoom(id)
    \/ \E req \in BookRequests(MaxGuest) : Book(req)
    \/ ExpireSweep

Spec == Init /\ [][Next]_vars

\* Rooms are created; then only bookings and expiry sweeps, as dates pass.
NextBookSweep ==
    \/ Tick
    \/ \E req \in RoomRequests : CreateRoom(req)
    \/ \E req \in BookRequests(MaxSweepGuest) : Book(req)
    \/ ExpireSweep

SpecBookSweep == Init /\ [][NextBookSweep]_vars

\* Sessions that interleave between a handler's read and its commit.
NextConcurrent ==
    \/ \E p \in Procs, req \in ConcurrentBookRequests : BookRead(p, req)
    \/ \E p \in Procs : BookCommit(p)
    \/ \E p \in Procs, req \in ConcurrentRoomRequests : CreateRoomRead(p, req)
    \/ \E p \in Procs : CreateRoomCommit(p)
    \/ \E p \in Procs, id \in RoomIds : DeleteRoomBy(p, id)

SpecConcurrent == Init /\ [][NextConcurrent]_vars

\* ------------------------------------------------------------------ claims
\* A reservation that is active and has not run out on the current date.
ActiveOn(x, d) == x.actual /\ x.checkout > d

\* The rows a sweep on date d is specified to expire.
DueOn(rsv, d) == {x \in rsv : x.actual /\ x.checkout <= d}

\* The step is a completed call of handler op (the calendar does not move
\* inside a call, and every call of the sequential specifications sets last).
Called(op) == last'.op = op /\ today' = today

TablesUnchanged == rooms' = rooms /\ reserved' = reserved

\* C1: in every reachable state, a room is flagged is_reserved if and only if
\* some reserved_rooms row references it with actual = true and a checkout
\* later than the current date.
C1_FlagIffActiveReservation ==
    \A r \in rooms :
        r.is_reserved <=> \E x \in reserved : x.id_room = r.id /\ ActiveOn(x, today)

\* C2: of the Book calls that sessions run concurrently on one room, no two
\* succeed.
C2_AtMostOneBookSucceeds ==
    \A r \in RoomIds :
        Cardinality({p \in Procs : /\ sess[p].pc = "idle"
                                   /\ sess[p].op = "Book"
                                   /\ sess[p].arg = r
                                   /\ sess[p].out = "Ok"}) <= 1

\* C3: with only bookings and expiry sweeps, every row that is active and not
\* yet run out references a room that is flagged is_reserved.
C3_ActiveReservationHasFlaggedRoom ==
    \A x \in reserved :
        ActiveOn(x, today) => \E r \in rooms : r.id = x.id_room /\ r.is_reserved

\* A Book step that committed both writes: the room is flagged and exactly
\* one new row, for that room, is in reserved_rooms.
BookWroteBoth(row) ==
    /\ row \notin reserved
    /\ reserved' = reserved \cup {row}
    /\ row.id_room = last'.arg
    /\ rooms' = SetReservedFlag(rooms, {last'.arg}, TRUE)
    /\ \E r \in rooms' : r.id = last'.arg /\ r.is_reserved

C5_BookOnReservedRoomRejected ==
    [][\A r \in rooms :
         (r.is_reserved /\ Called("Book") /\ last'.arg = r.id)
             => (last'.out = "AlreadyReserved" /\ TablesUnchanged)]_vars

C5_Witness ==
    /\ last.op = "Book"
    /\ last.out = "AlreadyReserved"
    /\ \E r \in rooms : r.id = last.arg /\ r.is_reserved

\* C6: a Book whose id_room matches no room fails with NotFound (not with
\* AlreadyReserved, not with an unhandled fault) and changes neither table.
C6_BookOnMissingRoomIsNotFound ==
    [][(Called("Book") /\ RoomById(rooms, last'.arg) = {})
         => (last'.out = "NotFound" /\ TablesUnchanged)]_vars

\* C7: an expiry sweep that directly follows an expiry sweep on the same date
\* returns an empty list and changes no room and no reservation.
C7_SecondSweepReturnsNothing ==
    [][(Called("ExpireSweep") /\ last'.rep)
         => (last'.ret = {} /\ TablesUnchanged)]_vars

\* C8: an expiry sweep returns exactly the rows that were active with
\* checkout <= today, sets actual = false on exactly those, unflags exactly
\* the rooms they reference and leaves every other row as it was.
C8_SweepExpiresExactlyTheDueRows ==
    [][Called("ExpireSweep") =>
         /\ last'.ret = Ids(DueOn(reserved, today))
         /\ reserved' = SetActual(reserved, Ids(DueOn(reserved, today)), FALSE)
         /\ rooms' = SetReservedFlag(rooms,
                        {x.id_room : x \in DueOn(reserved, today)}, FALSE)]_vars

\* C9: an expiry sweep that finds no active row with checkout <= today
\* returns an empty list and changes no table.
C9_SweepWithNothingDueIsNoOp ==
    [][(Called("ExpireSweep") /\ DueOn(reserved, today) = {})
         => (last'.ret = {} /\ users' = users /\ TablesUnchanged)]_vars

\* C10: a DeleteRoom whose id matches no room fails with NotFound and leaves
\* rooms and reserved_rooms as they were.
C10_DeleteMissingRoomIsNotFound ==
    [][(Called("DeleteRoom") /\ RoomById(rooms, last'.arg) = {})
         => (last'.out = "NotFound" /\ TablesUnchanged)]_vars

\* DeleteRoom has just answered NotFound while other rooms exist.
C10_Witness ==
    /\ last.op = "DeleteRoom"
    /\ last.out = "NotFound"
    /\ RoomById(rooms, last.arg) = {}
    /\ rooms # {}

\* C11: whatever the interleaving of CreateRoom and DeleteRoom calls, the
\* concurrent ones included, no two rooms share a room_number.
C11_RoomNumbersAreUnique ==
    \A r1 \in rooms, r2 \in rooms :
        r1.room_number = r2.room_number => r1.id = r2.id

\* C12: ListRooms and ListReservations each answer NotFound on an empty
\* table, return every row of it otherwise, and change no table.
C12_ListsAnswerNotFoundWhenEmpty ==
    [][/\ Called("ListRooms") =>
            /\ IF rooms = {} THEN last'.out = "NotFound"
                             ELSE last'.out = "Ok" /\ last'.ret = Ids(rooms)
            /\ users' = users /\ TablesUnchanged
       /\ Called("ListReservations") =>
            /\ IF reserved = {} THEN last'.out = "NotFound"
                                ELSE last'.out = "Ok" /\ last'.ret = Ids(reserved)
            /\ users' = users /\ TablesUnchanged]_vars

\* C13: with only bookings and expiry sweeps, run one at a time, no room is
\* referenced by two rows that are both active and not yet run out.
C13_NoDoubleBooking ==
    \A x \in reserved, y \in reserved :
        (x.id_room = y.id_room /\ ActiveOn(x, today) /\ ActiveOn(y, today))
            => x.id = y.id

====
